---- MODULE Spec2Model ----
(***************************************************************************)
(* Model of src/server.js: a multer-backed POST /upload endpoint writing   *)
(* into the flat directory uploads/, and the setInterval cleanup callback  *)
(* that deletes entries older than UPLOAD_CLEANUP_INTERVAL.                *)
(*                                                                         *)
(* Time is counted in ticks and sizes in chunks; the two program constants *)
(* (24 h, 10 MiB) are scaled to a few ticks / chunks so that the           *)
(* boundaries <, = and > are all exercised.                                *)
(***************************************************************************)
EXTENDS Integers, Sequences, FiniteSets, TLC

\* ------------------------------------------------------------- bounds
MaxReqs == 2        \* upload requests served during one run
MaxClock == 2       \* last clock reading explored
RandMax == 1        \* Math.round(Math.random() * 1E9) ranges over 0..RandMax
LimitChunks == 1    \* FILE_SIZE_LIMIT, in chunks
IntervalTicks == 1  \* UPLOAD_CLEANUP_INTERVAL, in clock ticks
MaxClockTimed == 3  \* last clock reading explored when the timer is on time
MaxNameLen == 3     \* longest original filename explored for the stored name

\* ---------------------------------------------------- program constants
FILE_SIZE_LIMIT == LimitChunks
UPLOAD_CLEANUP_INTERVAL == IntervalTicks

\* A MIME type "a/b" is the pair <<"a", "b">>.
ALLOWED_FILE_TYPES ==
  { <<"image", "jpeg">>, <<"image", "png">>, <<"image", "gif">>,
    <<"image", "webp">>, <<"video", "mp4">>, <<"video", "mpeg">>,
    <<"video", "quicktime">> }

\* ---------------------------------------------------------------- inputs
Reqs == 1..MaxReqs
\* The file parts clients send: a declared MIME type and an original
\* filename (a sequence of characters).
Parts ==
  { [mimetype |-> <<"image", "png">>, originalname |-> <<"p", ".", "g">>],
    [mimetype |-> <<"video", "mp4">>, originalname |-> <<"p">>],
    [mimetype |-> <<"application", "pdf">>, originalname |-> <<"p", ".", "g">>],
    [mimetype |-> <<"image", "svg+xml">>, originalname |-> <<"p">>] }
Sizes == 0..(FILE_SIZE_LIMIT + 1)
\* Original filenames for the study of the stored name: the multipart
\* parser hands over the base name of what the client sent, so a name
\* holds no path separator.
Names == UNION { [1..n -> {"a", "."}] : n \in 1..MaxNameLen }
NameParts ==
  [mimetype : ALLOWED_FILE_TYPES
                \cup {<<"application", "pdf">>, <<"image", "svg+xml">>},
   originalname : Names]

\* The i-th chunk of the body uploaded by request r.
Chunk(r, i) == <<r, i>>
\* A chunk-sized hole (zero bytes) left by a write past the end of a file.
Hole == <<0, 0>>
Content(r, n) == [i \in 1..n |-> Chunk(r, i)]

\* ------------------------------------------------------- pure functions
SetMax(S) == CHOOSE x \in S : \A y \in S : y <= x

extnameFromLastDot(s) ==
  LET dots == { i \in 1..Len(s) : s[i] = "." }
  IN IF dots = {} THEN <<>> ELSE SubSeq(s, SetMax(dots), Len(s))
\* path.extname: the suffix of the last path component from its last dot;
\* empty when there is no dot, when the only dot leads the component, or
\* when the component is "..".
extname(s) ==
  LET ends == { i \in 1..Len(s) : s[i] /= "/" }
  IN IF ends = {} THEN <<>>
     ELSE LET end == SetMax(ends)
              slashes == { i \in 1..end : s[i] = "/" }
              start == IF slashes = {} THEN 1 ELSE SetMax(slashes) + 1
              dots == { i \in start..end : s[i] = "." }
          IN IF dots = {} THEN <<>>
             ELSE LET d == SetMax(dots)
                  IN IF d = start THEN <<>>
                     ELSE IF d = end /\ d = start + 1 /\ s[start] = "."
                          THEN <<>>
                          ELSE SubSeq(s, d, end)

\* file.mimetype.split('/')[0]
fileType(mimetype) == mimetype[1]

\* storage.filename: `${fileType}_${Date.now()}_${random}${extension}`;
\* the four parts of the string are kept as the fields of a record.
filename(mimetype, originalname, dateNow, random) ==
  [type |-> fileType(mimetype), ms |-> dateNow, rnd |-> random,
   ext |-> extname(originalname)]

fileFilterPassAll(mimetype) == TRUE
fileFilterTagOnly(mimetype) == fileType(mimetype) \in {"image", "video"}
\* fileFilter: TRUE when the upload is let through.
fileFilter(mimetype) == mimetype \in ALLOWED_FILE_TYPES

\* limits.fileSize: the part is cut off at the limit, and the request
\* fails with LIMIT_FILE_SIZE, when it holds more than the limit.
OverLimit(size) == size > FILE_SIZE_LIMIT

Min(a, b) == IF a < b THEN a ELSE b
\* number of chunks of the part that reach the write stream
Piped(size) == Min(size, FILE_SIZE_LIMIT)

\* ------------------------------------------------------------ responses
NoResponse == [status |-> 0, kind |-> "none"]
SuccessResponse == [status |-> 200, kind |-> "Accepted"]
NoFileResponse500 == [status |-> 500, kind |-> "NoFileProvided"]
\* !req.file in the route handler
NoFileResponse == [status |-> 400, kind |-> "NoFileProvided"]
\* errors passed to next(err) end in the error handling middleware
ErrorResponse(kind) == [status |-> 500, kind |-> kind]

\* ------------------------------------------------------------- the state
VARIABLES
  clock,      \* Date.now()
  dirExists,  \* whether uploads/ exists
  dir,        \* uploads/: stored name -> [id, data, birth]
  req,        \* per request: position, inputs, stored name, response
  sweep,      \* the cleanup pass in flight and what it logged
  nextSweep   \* clock reading from which the interval timer is due

vars == <<clock, dirExists, dir, req, sweep, nextSweep>>

\* placeholders of a request that has no stored name / no file part
NoName == [type |-> "", ms |-> 0, rnd |-> 0, ext |-> <<>>]
NoMime == <<"", "">>
\* A request: pc is its position, mime and size describe its file part,
\* orig is the original filename given to storage.filename, name is the
\* stored name, fd the file its write stream opened, off the
\* number of chunks the stream has written, out the response.
IdleReq ==
  [pc |-> "idle", mime |-> NoMime, size |-> 0, orig |-> <<>>,
   name |-> NoName, fd |-> 0, off |-> 0, out |-> NoResponse]
\* A cleanup pass: now is read when the timer fires; toStat and toUnlink
\* are the entries whose stat / unlink callback is outstanding; errs and
\* deleted are what the pass has logged; listed are the files (not the
\* names) that readdir found; prevFailed tells whether the pass before it
\* ended on a readdir error.
IdleSweep ==
  [phase |-> "idle", now |-> 0, toStat |-> {},
   toUnlink |-> {}, errs |-> {}, deleted |-> {},
   rerun |-> FALSE, prevErrs |-> {}, prevDeleted |-> {},
   prevFailed |-> FALSE, listed |-> {}]

\* ------------------------------------------------------ file operations
\* directory d without the entry n
Unlink(d, n) == [m \in (DOMAIN d) \ {n} |-> d[m]]
\* directory d with entry n set to f
Link(d, n, f) == [m \in (DOMAIN d) \cup {n} |-> IF m = n THEN f ELSE d[m]]
\* data with chunk c written at chunk offset off (0-based)
WriteAt(data, off, c) ==
  [i \in 1..(IF off + 1 > Len(data) THEN off + 1 ELSE Len(data)) |->
     IF i = off + 1 THEN c
     ELSE IF i <= Len(data) THEN data[i] ELSE Hole]

Init ==
  /\ clock = 0
  /\ dirExists = FALSE
  /\ dir = <<>>
  /\ req = [r \in Reqs |-> IdleReq]
  /\ sweep = IdleSweep
  /\ nextSweep = UPLOAD_CLEANUP_INTERVAL

\* time passes
Tick ==
  /\ clock < MaxClock
  /\ clock' = clock + 1
  /\ UNCHANGED <<dirExists, dir, req, sweep, nextSweep>>

\* --------------------------------------------------- POST /upload (multer)
Set(r, rec) == [req EXCEPT ![r] = rec]

\* Requests are numbered in the order of their arrival.
Arrives(r) == req[r].pc = "idle" /\ \A q \in 1..(r - 1) : req[q].pc /= "idle"

\* A request without a file part: upload.single leaves req.file undefined
\* and the route handler answers 400.
UploadNoFile(r) ==
  /\ Arrives(r)
  /\ req' = Set(r, [req[r] EXCEPT !.pc = "done", !.out = NoFileResponse])
  /\ UNCHANGED <<clock, dirExists, dir, sweep, nextSweep>>

\* A file part that fileFilter turns down: cb(new Error('Invalid file type'))
\* reaches the error handling middleware; the storage engine is never called.
UploadRejected(r, mimetype, originalname, size) ==
  /\ Arrives(r)
  /\ ~fileFilter(mimetype)
  /\ req' = Set(r, [req[r] EXCEPT !.pc = "done", !.mime = mimetype,
                                  !.size = size,
                                  !.out = ErrorResponse("UnsupportedType")])
  /\ UNCHANGED <<clock, dirExists, dir, sweep, nextSweep>>

\* A file part that fileFilter lets through: storage.destination makes the
\* directory, storage.filename names the file, and a write stream on the
\* final path is created (its open happens later).
UploadStart(r, mimetype, originalname, size, random) ==
  /\ Arrives(r)
  /\ fileFilter(mimetype)
  /\ dirExists' = TRUE
  /\ req' = Set(r, [req[r] EXCEPT
                      !.pc = "open", !.mime = mimetype, !.size = size,
                      !.orig = originalname,
                      !.name = filename(mimetype, originalname, clock, random)])
  /\ UNCHANGED <<clock, dir, sweep, nextSweep>>

\* The write stream opens the final path with flags 'w': an existing entry
\* is truncated (same file, same birth time), a missing one is created.
Open(r) ==
  /\ req[r].pc = "open"
  /\ LET n == req[r].name
     IN IF n \in DOMAIN dir
        THEN /\ dir' = [dir EXCEPT ![n].data = <<>>]
             /\ req' = Set(r, [req[r] EXCEPT !.pc = "write", !.fd = dir[n].id])
        ELSE /\ dir' = Link(dir, n, [id |-> r, data |-> <<>>, birth |-> clock])
             /\ req' = Set(r, [req[r] EXCEPT !.pc = "write", !.fd = r])
  /\ UNCHANGED <<clock, dirExists, sweep, nextSweep>>

\* One chunk of the part is written at the stream's own offset, into the
\* file the stream opened (which may no longer be linked in the directory).
Write(r) ==
  /\ req[r].pc = "write"
  /\ req[r].off < Piped(req[r].size)
  /\ LET n == req[r].name
     IN IF n \in DOMAIN dir /\ dir[n].id = req[r].fd
        THEN dir' = [dir EXCEPT ![n].data =
                       WriteAt(@, req[r].off, Chunk(r, req[r].off + 1))]
        ELSE dir' = dir
  /\ req' = Set(r, [req[r] EXCEPT !.off = @ + 1])
  /\ UNCHANGED <<clock, dirExists, sweep, nextSweep>>

\* The write stream finishes.  Within the limit, the route handler answers
\* 200 with the file's description; over the limit, multer first removes
\* the file it stored.
Finish(r) ==
  /\ req[r].pc = "write"
  /\ req[r].off = Piped(req[r].size)
  /\ IF OverLimit(req[r].size)
     THEN req' = Set(r, [req[r] EXCEPT !.pc = "remove"])
     ELSE req' = Set(r, [req[r] EXCEPT !.pc = "done", !.out = SuccessResponse])
  /\ UNCHANGED <<clock, dirExists, dir, sweep, nextSweep>>

RemoveUploadedKeep(d, n) == d
\* diskStorage._removeFile: fs.unlink(file.path); its error is only attached
\* to the upload error.
RemoveUploaded(d, n) == IF n \in DOMAIN d THEN Unlink(d, n) ELSE d

\* The over-limit upload's file is removed and LIMIT_FILE_SIZE reaches the
\* error handling middleware.
Remove(r) ==
  /\ req[r].pc = "remove"
  /\ dir' = RemoveUploaded(dir, req[r].name)
  /\ req' = Set(r, [req[r] EXCEPT !.pc = "done",
                                  !.out = ErrorResponse("PayloadTooLarge")])
  /\ UNCHANGED <<clock, dirExists, sweep, nextSweep>>

\* ------------------------------------------------- the cleanup interval
ShouldDeleteTwoIntervals(now, birthtimeMs) ==
  now - birthtimeMs > 2 * UPLOAD_CLEANUP_INTERVAL
ShouldDeleteInclusive(now, birthtimeMs) ==
  now - birthtimeMs >= UPLOAD_CLEANUP_INTERVAL
ShouldDeleteAtCallback(now, birthtimeMs) ==
  clock - birthtimeMs > UPLOAD_CLEANUP_INTERVAL
\* The cleanup test, with now read when the timer fired:
\* now - stats.birthtimeMs > UPLOAD_CLEANUP_INTERVAL
ShouldDelete(now, birthtimeMs) ==
  now - birthtimeMs > UPLOAD_CLEANUP_INTERVAL

\* The previous pass has no callback outstanding.
SweepQuiet ==
  sweep.phase /= "listing" /\ sweep.toStat = {} /\ sweep.toUnlink = {}

\* The interval timer fires: now is read and readdir is issued.
SweepFire ==
  /\ clock >= nextSweep
  /\ SweepQuiet
  /\ sweep' = [IdleSweep EXCEPT !.phase = "listing", !.now = clock,
                                !.prevFailed = (sweep.phase = "failed")]
  /\ nextSweep' = clock + UPLOAD_CLEANUP_INTERVAL
  /\ UNCHANGED <<clock, dirExists, dir, req>>

ReaddirFailedThrows(s) == [s EXCEPT !.phase = "crashed"]
\* readdir gave an error: it is logged and the callback returns; the pass
\* is over and the interval timer stays armed.
ReaddirFailed(s) == [s EXCEPT !.phase = "failed"]

\* The readdir callback: on error (the directory does not exist) log and
\* return, else stat every entry.
SweepReaddir ==
  /\ sweep.phase = "listing"
  /\ IF dirExists
     THEN sweep' = [sweep EXCEPT !.phase = "running",
                                 !.toStat = DOMAIN dir,
                                 !.listed = { dir[f].id : f \in DOMAIN dir }]
     ELSE sweep' = ReaddirFailed(sweep)
  /\ UNCHANGED <<clock, dirExists, dir, req, nextSweep>>

OnEntryErrorAbort(pending, f) == {}
\* An error in one entry's callback is logged and that callback returns:
\* the entries still pending stay pending.
OnEntryError(pending, f) == pending \ {f}

\* The stat callback of entry f.
SweepStat ==
  \E f \in sweep.toStat :
    /\ sweep.phase = "running"
    /\ IF f \in DOMAIN dir
       THEN sweep' = [sweep EXCEPT
                        !.toStat = @ \ {f},
                        !.toUnlink =
                           IF ShouldDelete(sweep.now, dir[f].birth)
                           THEN @ \cup {f} ELSE @]
       ELSE sweep' = [sweep EXCEPT !.toStat = OnEntryError(@, f),
                                   !.errs = @ \cup {f}]
    /\ UNCHANGED <<clock, dirExists, dir, req, nextSweep>>

\* stat fails for a reason outside the program (permissions, I/O).
SweepStatFault ==
  \E f \in sweep.toStat :
    /\ sweep.phase = "running"
    /\ sweep' = [sweep EXCEPT !.toStat = OnEntryError(@, f),
                              !.errs = @ \cup {f}]
    /\ UNCHANGED <<clock, dirExists, dir, req, nextSweep>>

\* The unlink of entry f and its callback.
SweepUnlink ==
  \E f \in sweep.toUnlink :
    /\ sweep.phase = "running"
    /\ IF f \in DOMAIN dir
       THEN /\ dir' = Unlink(dir, f)
            /\ sweep' = [sweep EXCEPT !.toUnlink = @ \ {f},
                                      !.deleted = @ \cup {f}]
       ELSE /\ dir' = dir
            /\ sweep' = [sweep EXCEPT !.toUnlink = OnEntryError(@, f),
                                      !.errs = @ \cup {f}]
    /\ UNCHANGED <<clock, dirExists, req, nextSweep>>

\* unlink fails for a reason outside the program.
SweepUnlinkFault ==
  \E f \in sweep.toUnlink :
    /\ sweep.phase = "running"
    /\ sweep' = [sweep EXCEPT !.toUnlink = OnEntryError(@, f),
                              !.errs = @ \cup {f}]
    /\ UNCHANGED <<clock, dirExists, dir, req, nextSweep>>

\* The cleanup callback is run again as soon as a pass has completed, at
\* the same clock reading (two runs in immediate succession); the new pass
\* remembers what the pass before it logged.
SweepRerun ==
  /\ sweep.phase = "running"
  /\ SweepQuiet
  /\ clock = sweep.now
  /\ sweep' = [IdleSweep EXCEPT !.phase = "listing", !.now = clock,
                                !.rerun = TRUE, !.prevErrs = sweep.errs,
                                !.prevDeleted = sweep.deleted]
  /\ UNCHANGED <<clock, dirExists, dir, req, nextSweep>>


Next ==
  \/ Tick
  \/ \E r \in Reqs : UploadNoFile(r)
  \/ \E r \in Reqs, p \in Parts, s \in Sizes :
       UploadRejected(r, p.mimetype, p.originalname, s)
  \/ \E r \in Reqs, p \in Parts, s \in Sizes, x \in 0..RandMax :
       UploadStart(r, p.mimetype, p.originalname, s, x)
  \/ \E r \in Reqs : Open(r)
  \/ \E r \in Reqs : Write(r)
  \/ \E r \in Reqs : Finish(r)
  \/ \E r \in Reqs : Remove(r)
  \/ SweepFire
  \/ SweepReaddir
  \/ SweepStat
  \/ SweepStatFault
  \/ SweepUnlink
  \/ SweepUnlinkFault

Spec == Init /\ [][Next]_vars

\* The program with the cleanup callback also run back to back.
NextRerun == Next \/ SweepRerun
SpecRerun == Init /\ [][NextRerun]_vars

\* The program with the timer firing on time and no I/O failure from
\* outside: time does not pass a due timer, so a pass fires at every
\* multiple of the interval, up to MaxClockTimed.
TickTimed ==
  /\ clock < MaxClockTimed
  /\ clock < nextSweep
  /\ clock' = clock + 1
  /\ UNCHANGED <<dirExists, dir, req, sweep, nextSweep>>

NextTimed ==
  \/ TickTimed
  \/ \E r \in Reqs : UploadNoFile(r)
  \/ \E r \in Reqs, p \in Parts, s \in Sizes :
       UploadRejected(r, p.mimetype, p.originalname, s)
  \/ \E r \in Reqs, p \in Parts, s \in Sizes, x \in 0..RandMax :
       UploadStart(r, p.mimetype, p.originalname, s, x)
  \/ \E r \in Reqs : Open(r)
  \/ \E r \in Reqs : Write(r)
  \/ \E r \in Reqs : Finish(r)
  \/ \E r \in Reqs : Remove(r)
  \/ SweepFire
  \/ SweepReaddir
  \/ SweepStat
  \/ SweepUnlink
SpecTimed == Init /\ [][NextTimed]_vars

\* One upload at a time with original filenames of every shape, the
\* cleanup timer left out: the program as far as the stored name goes.
NextNaming ==
  \/ Tick
  \/ \E p \in NameParts, s \in Sizes :
       UploadRejected(1, p.mimetype, p.originalname, s)
  \/ \E p \in NameParts, s \in Sizes, x \in 0..RandMax :
       UploadStart(1, p.mimetype, p.originalname, s, x)
  \/ Open(1)
  \/ Write(1)
  \/ Finish(1)
  \/ Remove(1)
SpecNaming == Init /\ [][NextNaming]_vars

\* ------------------------------------------------------------ the claims
HasFile(q) == q.mime /= NoMime
\* the entries of directory d that request r created
Created(d, r) == { n \in DOMAIN d : d[n].id = r }

\* C1: an upload whose declared MIME type is outside the allow-set ends,
\* in the step that handles it, rejected as UnsupportedType, and that step
\* leaves the storage directory (its existence and its entries) as it was.
C1_DisallowedTypeRejected ==
  [][\A r \in Reqs :
       (req'[r] /= req[r] /\ HasFile(req'[r])
          /\ req'[r].mime \notin ALLOWED_FILE_TYPES)
       => /\ req'[r].pc = "done"
          /\ req'[r].out.kind = "UnsupportedType"
          /\ dir' = dir
          /\ dirExists' = dirExists]_vars

\* C1 witness: an application/pdf upload was rejected while another upload
\* is stored in the directory.
C1_Witness ==
  \E r \in Reqs :
    /\ req[r].mime = <<"application", "pdf">>
    /\ req[r].out.kind = "UnsupportedType"
    /\ DOMAIN dir /= {}

\* C2 (as claimed): any two accepted uploads have distinct stored names.
C2_DistinctStoredNames ==
  \A r, q \in Reqs :
    (r /= q /\ req[r].out.status = 200 /\ req[q].out.status = 200)
    => req[r].name /= req[q].name

\* C3: an allowed-type upload larger than FILE_SIZE_LIMIT ends rejected as
\* PayloadTooLarge, and once it has ended the file its stream opened is no
\* longer an entry of the storage directory.
C3_OverLimitRejectedAndRemoved ==
  \A r \in Reqs :
    (req[r].pc = "done" /\ req[r].mime \in ALLOWED_FILE_TYPES
       /\ req[r].size > FILE_SIZE_LIMIT)
    => /\ req[r].out.kind = "PayloadTooLarge"
       /\ \A n \in DOMAIN dir : dir[n].id /= req[r].fd

\* C3 witness: an over-limit upload has ended, after writing a partial file.
C3_Witness ==
  \E r \in Reqs :
    /\ req[r].pc = "done"
    /\ req[r].size > FILE_SIZE_LIMIT
    /\ req[r].off = FILE_SIZE_LIMIT
    /\ req[r].out.kind = "PayloadTooLarge"

\* C4: within a pass, a stat callback that succeeds schedules the entry's
\* unlink exactly when now - birthtime is strictly greater than the
\* interval; an unlink that succeeds removes the entry; and the pass
\* deletes no entry it did not schedule.
C4_DeletedIffStrictlyOlder ==
  [][(sweep.phase = "running" /\ sweep'.phase = "running") =>
       /\ \A f \in sweep.toStat \ sweep'.toStat :
            (sweep'.errs = sweep.errs) =>
              /\ f \in DOMAIN dir
              /\ (f \in sweep'.toUnlink
                    <=> sweep.now - dir[f].birth > UPLOAD_CLEANUP_INTERVAL)
       /\ \A f \in sweep.toUnlink \ sweep'.toUnlink :
            (sweep'.errs = sweep.errs) =>
              f \in DOMAIN dir /\ f \notin DOMAIN dir'
       /\ \A f \in sweep'.deleted \ sweep.deleted :
            f \in sweep.toUnlink]_vars

\* C4 witness: a pass has deleted an entry and has, after a successful
\* stat, retained an entry aged exactly the interval.
C4_Witness ==
  /\ sweep.phase = "running"
  /\ sweep.deleted /= {}
  /\ \E f \in DOMAIN dir :
       /\ sweep.now - dir[f].birth = UPLOAD_CLEANUP_INTERVAL
       /\ f \notin sweep.toStat \cup sweep.toUnlink \cup sweep.errs

\* C5 (as claimed): when the success response is produced, the entry under
\* the reported filename holds exactly the uploaded content.
C5_RoundTrip ==
  [][\A r \in Reqs :
       (req[r].out.status /= 200 /\ req'[r].out.status = 200)
       => /\ req'[r].name \in DOMAIN dir'
          /\ dir'[req'[r].name].data = Content(r, req'[r].size)]_vars

C7_FailureIsolatedPerEntry ==
  (sweep.phase = "running" /\ SweepQuiet) =>
    \A f \in DOMAIN dir :
      (sweep.now - dir[f].birth > UPLOAD_CLEANUP_INTERVAL)
      => f \in sweep.errs

\* C7 witness: a completed pass in which one entry failed and another,
\* older than the interval, was deleted.
C7_Witness ==
  /\ sweep.phase = "running"
  /\ SweepQuiet
  /\ sweep.errs /= {}
  /\ sweep.deleted \ sweep.errs /= {}

\* C8 (as claimed): every client-input rejection is answered 4xx, and a
\* missing file or a disallowed type is answered 400.
C8_ClientErrorsAre4xx ==
  \A r \in Reqs :
    /\ req[r].out.kind \in {"NoFileProvided", "UnsupportedType",
                            "PayloadTooLarge"}
       => req[r].out.status \in 400..499
    /\ req[r].out.kind \in {"NoFileProvided", "UnsupportedType"}
       => req[r].out.status = 400

\* C9: a request without a file part is answered 400 NoFileProvided in the
\* step that handles it, and that step leaves the storage directory (its
\* existence and its entries) as it was.
C9_NoFileIs400 ==
  [][\A r \in Reqs :
       (req[r].pc = "idle" /\ req'[r].pc /= "idle" /\ ~HasFile(req'[r]))
       => /\ req'[r].pc = "done"
          /\ req'[r].out = [status |-> 400, kind |-> "NoFileProvided"]
          /\ dir' = dir
          /\ dirExists' = dirExists]_vars

\* C9 witness: a request without a file part was answered before the
\* storage directory was ever created.
C9_Witness ==
  \E r \in Reqs :
    /\ ~HasFile(req[r])
    /\ req[r].out.kind = "NoFileProvided"
    /\ ~dirExists

\* C10 (as claimed): no step of an accepted upload changes an entry that
\* another upload created, and when its success response is produced the
\* upload has created exactly one entry, named as reported, holding the
\* whole content, with the reported size equal to the uploaded size.
C10_AcceptedAddsExactlyOneEntry ==
  [][\A r \in Reqs :
       (req'[r] /= req[r] /\ fileFilter(req'[r].mime)
          /\ ~OverLimit(req'[r].size))
       => /\ \A n \in DOMAIN dir :
               dir[n].id /= r => (n \in DOMAIN dir' /\ dir'[n] = dir[n])
          /\ req'[r].out.status = 200 =>
               /\ Created(dir', r) = {req'[r].name}
               /\ dir'[req'[r].name].data = Content(r, req'[r].size)
               /\ req'[r].off = req'[r].size]_vars

\* C11 (as claimed): once an upload has been answered 200, the entry under
\* its stored name is never changed in place; the only thing that happens
\* to it is its removal by an unlink of the cleanup pass.
C11_StoredFileNeverMutated ==
  [][\A r \in Reqs :
       (req[r].out.status = 200 /\ req[r].name \in DOMAIN dir)
       => IF req[r].name \in DOMAIN dir'
          THEN dir'[req[r].name] = dir[req[r].name]
          ELSE req[r].name \in sweep'.deleted \ sweep.deleted]_vars

\* C15: an upload that is both of a disallowed type and over the size limit
\* is turned down as UnsupportedType, never as PayloadTooLarge: the step
\* that handles it neither creates the directory nor touches an entry, and
\* the request is never named, never opens a file and never writes a byte.
C15_TypeCheckPrecedesStorageAndSize ==
  [][\A r \in Reqs :
       (HasFile(req'[r]) /\ req'[r].mime \notin ALLOWED_FILE_TYPES
          /\ req'[r].size > FILE_SIZE_LIMIT)
       => /\ req'[r].pc = "done"
          /\ req'[r].out.kind = "UnsupportedType"
          /\ req'[r].name = NoName /\ req'[r].fd = 0 /\ req'[r].off = 0
          /\ Created(dir', r) = {}
          /\ req[r].pc = "idle" => (dir' = dir /\ dirExists' = dirExists)]_vars

\* C15 witness: an over-limit application/pdf upload was answered
\* UnsupportedType and the uploads directory still does not exist.
C15_Witness ==
  \E r \in Reqs :
    /\ req[r].mime = <<"application", "pdf">>
    /\ req[r].size = FILE_SIZE_LIMIT + 1
    /\ req[r].out.kind = "UnsupportedType"
    /\ ~dirExists

\* C16: a pass whose directory listing fails (the directory does not exist
\* yet) ends there: it stats nothing, deletes nothing and leaves the
\* directory alone. The failure is not fatal: the timer stays due one
\* interval after the failed pass fired, the only thing the cleanup does
\* next is to fire again, no sooner than that, and the pass after the
\* failure lists the directory, once it exists, like any other pass.
C16_ListingFailureEndsPassOnly ==
  [][/\ (sweep.phase = "listing" /\ ~dirExists /\ sweep' /= sweep)
        => /\ sweep'.phase = "failed"
           /\ sweep'.toStat = {} /\ sweep'.toUnlink = {}
           /\ sweep'.deleted = {}
           /\ dir' = dir
           /\ nextSweep' = sweep.now + UPLOAD_CLEANUP_INTERVAL
     /\ (sweep.phase \notin {"idle", "listing", "running"})
        => /\ sweep.phase = "failed"
           /\ SweepQuiet
           /\ nextSweep = sweep.now + UPLOAD_CLEANUP_INTERVAL
           /\ sweep' /= sweep
              => /\ dir' = dir
                 /\ clock >= sweep.now + UPLOAD_CLEANUP_INTERVAL
                 /\ sweep'.phase = "listing" /\ sweep'.now = clock
                 /\ sweep'.prevFailed
     /\ (sweep.phase = "listing" /\ sweep.prevFailed /\ dirExists
           /\ sweep' /= sweep)
        => /\ sweep'.phase = "running"
           /\ sweep'.toStat = DOMAIN dir]_vars

\* C16 witness: the pass that follows a pass ended by a listing failure
\* has listed the directory and found an entry to examine.
C16_Witness ==
  /\ sweep.prevFailed
  /\ sweep.phase = "running"
  /\ sweep.toStat /= {}

\* C13 (as claimed): whatever the interleaving of the readdir, stat and
\* unlink callbacks with uploads, a file the pass deletes was older than
\* the interval at the pass's clock reading, and no upload is still
\* writing it.
C13_SweepDeletesOnlyOldAndUnwritten ==
  [][\A f \in DOMAIN dir :
       (f \notin DOMAIN dir' /\ sweep'.deleted /= sweep.deleted)
       => /\ sweep.now - dir[f].birth > UPLOAD_CLEANUP_INTERVAL
          /\ \A r \in Reqs :
               ~(req[r].pc = "write" /\ req[r].fd = dir[f].id)]_vars

\* C14 (as claimed): a file created after the pass's directory listing is
\* neither stat-ed nor deleted by that pass: every file a stat callback
\* examines, and every file an unlink removes, is one that the listing of
\* the pass found.
C14_OnlyListedFilesExamined ==
  [][\A f \in DOMAIN dir :
       /\ (f \in sweep.toStat /\ f \notin sweep'.toStat
             /\ f \notin sweep'.errs)
          => dir[f].id \in sweep.listed
       /\ (f \notin DOMAIN dir' /\ sweep'.deleted /= sweep.deleted)
          => dir[f].id \in sweep.listed]_vars

\* C12: with a pass fired at every multiple of the interval and no I/O
\* failure from outside, a file that is in the directory more than two
\* intervals (maximum age plus sweep interval) after its creation is there
\* only because the callbacks of the pass that deletes it have not all run
\* yet, and that pass fired no later than two intervals after the file's
\* creation, finding it older than the interval.
C12_BoundedRetention ==
  \A f \in DOMAIN dir :
    clock - dir[f].birth > 2 * UPLOAD_CLEANUP_INTERVAL
    => /\ sweep.phase = "listing" \/ f \in sweep.toStat \cup sweep.toUnlink
       /\ sweep.now - dir[f].birth > UPLOAD_CLEANUP_INTERVAL
       /\ sweep.now - dir[f].birth <= 2 * UPLOAD_CLEANUP_INTERVAL

\* C12 witness: an accepted upload named at clock 0 outlived the pass at
\* one interval and was deleted by the pass fired at two intervals.
C12_Witness ==
  \E r \in Reqs :
    /\ req[r].out.status = 200
    /\ req[r].name.ms = 0
    /\ req[r].name \in sweep.deleted
    /\ req[r].name \notin DOMAIN dir
    /\ sweep.now = 2 * UPLOAD_CLEANUP_INTERVAL

\* the positions of the dots of a filename
Dots(o) == { i \in 1..Len(o) : o[i] = "." }

\* C17 (as claimed): the extension of a stored name is the original
\* filename's suffix from its last dot, empty if it has no dot.
C17_ExtensionIsSuffixFromLastDot ==
  \A r \in Reqs :
    req[r].name /= NoName
    => req[r].name.ext =
         IF Dots(req[r].orig) = {} THEN <<>>
         ELSE SubSeq(req[r].orig, SetMax(Dots(req[r].orig)),
                     Len(req[r].orig))

\* C17 (amended): the stored name is made, in the step that names the
\* upload, of the MIME type's segment before the slash (always image or
\* video), the clock reading of that step, a random number and the
\* extension; the extension is the original filename's suffix from its
\* last dot, and is empty if the name has no dot, if its last dot is its
\* first character, or if the name is ".."; no part holds a path
\* separator, so the file is a direct child of the uploads directory.
C17_StoredNameFormat ==
  [][\A r \in Reqs :
       req'[r].name /= NoName
       => LET o == req'[r].orig
              n == req'[r].name
          IN /\ n.type = req'[r].mime[1]
             /\ n.type \in {"image", "video"}
             /\ n.rnd \in 0..RandMax
             /\ req[r].name = NoName => n.ms = clock
             /\ req[r].name /= NoName => n = req[r].name
             /\ n.ext =
                  IF \/ Dots(o) = {}
                     \/ SetMax(Dots(o)) = 1
                     \/ o = <<".", ".">>
                  THEN <<>>
                  ELSE SubSeq(o, SetMax(Dots(o)), Len(o))
             /\ \A i \in 1..Len(n.ext) : n.ext[i] /= "/"
             /\ (req[r].pc = "open" /\ req'[r].pc = "write")
                => n \in DOMAIN dir']_vars

\* C17 witness: an accepted upload of a file whose name starts with its
\* only dot is stored under a name with an empty extension.
C17_Witness ==
  \E r \in Reqs :
    /\ req[r].out.status = 200
    /\ req[r].orig = <<".", "a">>
    /\ req[r].name.ext = <<>>
    /\ req[r].name \in DOMAIN dir

====
